---- MODULE Spec2Model ----
(***************************************************************************)
(* Model of backend/main.py: a FastAPI microblog over three SQLAlchemy     *)
(* tables (users, posts, likes) stored in one SQLite file.                 *)
(*                                                                         *)
(* Spec     : one server process.  Every handler is an `async def` whose   *)
(*            body never awaits, so a request runs to completion and each  *)
(*            handler is one atomic action.                                *)
(* SpecConc : several server processes on the same database file.  The     *)
(*            handlers that read and then commit (like_post, delete_post)  *)
(*            are split at the commit, so that other requests may commit   *)
(*            between a handler's reads and its own commit.                *)
(*                                                                         *)
(* An HTTP header value is modelled as the sequence of its fields between  *)
(* single spaces, i.e. exactly what str.split(" ") returns: the string     *)
(* "Bearer user1" is <<"Bearer", "user1">>.  An absent header is <<>>.     *)
(***************************************************************************)
EXTENDS Integers, Sequences, FiniteSets, Bags

\* ---------------------------------------------------------------- bounds
MaxPosts == 2        \* how many posts are ever created (uuid4 values drawn)
MaxInflight == 2     \* how many requests are between read and commit at once
MaxConcPosts == 1    \* how many posts are created under SpecConc

\* ---------------------------------------------------------------- inputs
PostIds == 1..MaxPosts
ConcPostIds == 1..MaxConcPosts
Texts == {"hello"}
NoHeader == <<>>
BearerHeaders == {<<"Bearer", "user1">>, <<"Bearer", "user2">>}
Headers ==
    BearerHeaders \cup
    {NoHeader, <<"Bearer", "ghost">>, <<"Basic", "user1">>, <<"Bearer", "user1", "x">>}
Usernames == {"user1", "user2", "ghost"}
Passwords == {"password1", "password2", "wrong"}
None == "None"

\* ---------------------------------------------------------------- storage
FAKE_USERS_DB ==
    { [id |-> "1", username |-> "user1", password |-> "password1"],
      [id |-> "2", username |-> "user2", password |-> "password2"] }

VARIABLES
    posts,      \* rows of table posts: [id, text, timestamp, owner_id, owner_username]
    likes,      \* rows of table likes, as a bag of [user_id, post_id]
    usedIds,    \* the post ids uuid4 has produced so far
    clock,      \* datetime.now() of the latest create_post; later calls read later times
    inflight,   \* SpecConc: requests that have read and not yet committed
    last        \* the latest completed request and its response

vars == <<posts, likes, usedIds, clock, inflight, last>>
store == <<posts, likes, usedIds, clock>>

\* db.query(UserDB).filter_by(username=...)
UserByUsername(username) == {u \in FAKE_USERS_DB : u.username = username}

\* db.query(PostDB).filter_by(id=post_id)
PostById(post_id) == {p \in posts : p.id = post_id}

\* the likes row (user_id, post_id)
LikeRow(user_id, post_id) == [user_id |-> user_id, post_id |-> post_id]

\* db.query(LikeDB).filter_by(user_id=..., post_id=...).first() is not None
HasLike(user_id, post_id) == BagIn(LikeRow(user_id, post_id), likes)

\* User.from_orm(user_db)
UserOf(user_db) == [id |-> user_db.id, username |-> user_db.username]

\* authorization.startswith("Bearer ")
StartsWithBearer(authorization) == Len(authorization) >= 2 /\ authorization[1] = "Bearer"

\* authorization.split(" ")[1]
TokenOf(authorization) == authorization[2]

\* mutant of get_current_user: an unknown token is answered 403
get_current_user_forbidden(authorization) ==
    IF authorization = NoHeader THEN [status |-> 422, user |-> None]
    ELSE IF ~StartsWithBearer(authorization) THEN [status |-> 401, user |-> None]
    ELSE LET found == UserByUsername(TokenOf(authorization)) IN
         IF found = {} THEN [status |-> 403, user |-> None]
         ELSE [status |-> 200, user |-> UserOf(CHOOSE u \in found : TRUE)]

\* The dependency of the protected endpoints.  A missing required header is
\* rejected by the framework (422) before the function body runs.
get_current_user(authorization) ==
    IF authorization = NoHeader THEN [status |-> 422, user |-> None]
    ELSE IF ~StartsWithBearer(authorization) THEN [status |-> 401, user |-> None]
    ELSE LET found == UserByUsername(TokenOf(authorization)) IN
         IF found = {} THEN [status |-> 401, user |-> None]
         ELSE [status |-> 200, user |-> UserOf(CHOOSE u \in found : TRUE)]

Respond(op, auth, arg, status, body) ==
    last' = [op |-> op, auth |-> auth, arg |-> arg, status |-> status, body |-> body]

Init ==
    /\ posts = {}
    /\ likes = EmptyBag
    /\ usedIds = {}
    /\ clock = 0
    /\ inflight = EmptyBag
    /\ last = [op |-> "startup", auth |-> NoHeader, arg |-> 0, status |-> 0, body |-> <<>>]

\* str(uuid.uuid4()): a value never drawn before.  The handlers only compare
\* post ids for equality, so the least unused id stands for any fresh one.
uuid4 == CHOOSE id \in PostIds \ usedIds : \A other \in PostIds \ usedIds : id <= other

\* POST /api/posts
create_post(auth, text) ==
    LET cu == get_current_user(auth) IN
    IF cu.status # 200
    THEN /\ Respond("create_post", auth, text, cu.status, <<>>)
         /\ UNCHANGED <<store, inflight>>
    ELSE LET new_post == [id |-> uuid4, text |-> text, timestamp |-> clock + 1,
                          owner_id |-> cu.user.id, owner_username |-> cu.user.username] IN
         /\ usedIds # PostIds
         /\ posts' = posts \cup {new_post}
         /\ usedIds' = usedIds \cup {new_post.id}
         /\ clock' = clock + 1
         /\ Respond("create_post", auth, text, 201, new_post)
         /\ UNCHANGED <<likes, inflight>>

\* likes rows whose post_id is post_id: db.query(LikeDB).filter_by(post_id=post.id)
LikesOfPost(post_id) == {r \in BagToSet(likes) : r.post_id = post_id}

\* mutant of IsOwner: the ownership test is dropped
IsOwner_unchecked(post, current_user) == TRUE

\* post.owner_id != current_user.id, negated
IsOwner(post, current_user) == post.owner_id = current_user.id

\* mutant of UniqueConstraintViolated: the table has no uniqueness constraint
UniqueConstraintViolated_absent(user_id, post_id) == FALSE

\* __table_args__ = (UniqueConstraint('user_id', 'post_id'),): would inserting
\* the row (user_id, post_id) violate the constraint?
UniqueConstraintViolated(user_id, post_id) == BagIn(LikeRow(user_id, post_id), likes)

\* PostDB.likes has no delete cascade, so flushing db.delete(post) first
\* de-associates the post's likes rows (UPDATE likes SET post_id = NULL), and
\* likes.post_id is nullable=False: the flush fails when such a row exists.
NotNullViolated(post_id) == LikesOfPost(post_id) # {}

\* db.add(LikeDB(user_id=..., post_id=...))
InsertLike(user_id, post_id) == likes (+) SetToBag({LikeRow(user_id, post_id)})

\* mutant of DeleteLike: the delete is filtered by post_id alone
DeleteLike_of_everyone(user_id, post_id) ==
    [r \in BagToSet(likes) \ LikesOfPost(post_id) |-> CopiesIn(r, likes)]

\* db.delete(like)
DeleteLike(user_id, post_id) == likes (-) SetToBag({LikeRow(user_id, post_id)})

\* like_post up to its commit: 0 means "go on to the insert"
like_check(current_user, post_id) ==
    IF PostById(post_id) = {} THEN 404
    ELSE IF HasLike(current_user.id, post_id) THEN 400
    ELSE 0

\* like_post's db.add(new_like); db.commit().  An IntegrityError is not caught
\* anywhere, so it leaves the handler as an unhandled exception (500) and the
\* session is closed without a commit.
like_commit(auth, user_id, post_id) ==
    IF UniqueConstraintViolated(user_id, post_id)
    THEN /\ Respond("like_post", auth, post_id, 500, <<>>)
         /\ UNCHANGED store
    ELSE /\ likes' = InsertLike(user_id, post_id)
         /\ Respond("like_post", auth, post_id, 201, <<"Liked">>)
         /\ UNCHANGED <<posts, usedIds, clock>>

\* delete_post up to db.delete(post): 0 means "go on to the delete"
delete_check(current_user, post_id) ==
    LET found == PostById(post_id) IN
    IF found = {} THEN 404
    ELSE IF ~IsOwner(CHOOSE p \in found : TRUE, current_user) THEN 403
    ELSE 0

\* delete_post's db.delete(post); db.commit().  The flush de-associates the
\* post's likes rows before it deletes the posts row; a DELETE that matches no
\* row (the post was deleted meanwhile) only warns, and the request ends 204.
delete_commit(auth, post_id) ==
    IF NotNullViolated(post_id)
    THEN /\ Respond("delete_post", auth, post_id, 500, <<>>)
         /\ UNCHANGED store
    ELSE /\ posts' = posts \ PostById(post_id)
         /\ Respond("delete_post", auth, post_id, 204, <<>>)
         /\ UNCHANGED <<likes, usedIds, clock>>

\* DELETE /api/posts/{post_id}
delete_post(auth, post_id) ==
    LET cu == get_current_user(auth) IN
    /\ UNCHANGED inflight
    /\ IF cu.status # 200
       THEN Respond("delete_post", auth, post_id, cu.status, <<>>) /\ UNCHANGED store
       ELSE IF delete_check(cu.user, post_id) # 0
       THEN /\ Respond("delete_post", auth, post_id, delete_check(cu.user, post_id), <<>>)
            /\ UNCHANGED store
       ELSE delete_commit(auth, post_id)

\* POST /api/posts/{post_id}/like
like_post(auth, post_id) ==
    LET cu == get_current_user(auth) IN
    /\ UNCHANGED inflight
    /\ IF cu.status # 200
       THEN Respond("like_post", auth, post_id, cu.status, <<>>) /\ UNCHANGED store
       ELSE IF like_check(cu.user, post_id) # 0
       THEN /\ Respond("like_post", auth, post_id, like_check(cu.user, post_id), <<>>)
            /\ UNCHANGED store
       ELSE like_commit(auth, cu.user.id, post_id)

\* DELETE /api/posts/{post_id}/like
unlike_post(auth, post_id) ==
    LET cu == get_current_user(auth) IN
    /\ UNCHANGED inflight
    /\ IF cu.status # 200
       THEN Respond("unlike_post", auth, post_id, cu.status, <<>>) /\ UNCHANGED store
       ELSE IF ~HasLike(cu.user.id, post_id)
       THEN Respond("unlike_post", auth, post_id, 404, <<>>) /\ UNCHANGED store
       ELSE /\ likes' = DeleteLike(cu.user.id, post_id)
            /\ Respond("unlike_post", auth, post_id, 204, <<>>)
            /\ UNCHANGED <<posts, usedIds, clock>>

\* mutant of AccessToken: the token is the user's id
AccessToken_is_id(user) == user.id

\* access_token of the login response
AccessToken(user) == user.username

\* POST /api/login
login(username, password) ==
    LET found == UserByUsername(username)
        creds == [username |-> username, password |-> password] IN
    /\ UNCHANGED <<store, inflight>>
    /\ IF found = {} \/ (CHOOSE u \in found : TRUE).password # password
       THEN Respond("login", NoHeader, creds, 401, <<>>)
       ELSE LET user == CHOOSE u \in found : TRUE IN
            Respond("login", NoHeader, creds, 200,
                    [access_token |-> AccessToken(user), token_type |-> "bearer",
                     user |-> [id |-> user.id, username |-> user.username]])

\* mutant of likes_count: the count is not filtered by post
likes_count_unfiltered(post_id) == BagCardinality(likes)

\* db.query(LikeDB).filter_by(post_id=post.id).count()
likes_count(post_id) ==
    BagCardinality([r \in LikesOfPost(post_id) |-> CopiesIn(r, likes)])

\* mutant of order_by_timestamp_desc: ascending order
RECURSIVE order_by_timestamp_asc(_)
order_by_timestamp_asc(S) ==
    IF S = {} THEN <<>>
    ELSE LET oldest == CHOOSE p \in S : \A q \in S : p.timestamp <= q.timestamp IN
         <<oldest>> \o order_by_timestamp_asc(S \ {oldest})

\* .order_by(PostDB.timestamp.desc()).all() over the rows S
RECURSIVE order_by_timestamp_desc(_)
order_by_timestamp_desc(S) ==
    IF S = {} THEN <<>>
    ELSE LET newest == CHOOSE p \in S : \A q \in S : q.timestamp <= p.timestamp IN
         <<newest>> \o order_by_timestamp_desc(S \ {newest})

\* the optional caller of the listing endpoints: user_id, or None
optional_user_id(authorization) ==
    IF authorization # NoHeader /\ StartsWithBearer(authorization)
    THEN LET found == UserByUsername(TokenOf(authorization)) IN
         IF found # {} THEN (CHOOSE u \in found : TRUE).id ELSE None
    ELSE None

\* liked_by_me of one post for the resolved user_id
liked_by_me(post_id, user_id) ==
    IF user_id # None THEN HasLike(user_id, post_id) ELSE FALSE

\* the for-loop that builds the PostWithLikes list
PostWithLikes(post, user_id) ==
    [id |-> post.id, text |-> post.text, timestamp |-> post.timestamp,
     owner_id |-> post.owner_id, owner_username |-> post.owner_username,
     likes_count |-> likes_count(post.id),
     liked_by_me |-> liked_by_me(post.id, user_id)]

with_likes(rows, user_id) == [i \in 1..Len(rows) |-> PostWithLikes(rows[i], user_id)]

\* the id of the post the previous request created, 0 when it created none
JustCreated == IF last.op = "create_post" /\ last.status = 201 THEN last.body.id ELSE 0

\* GET /api/posts
list_posts(auth) ==
    /\ UNCHANGED <<store, inflight>>
    /\ last' = [op |-> "list_posts", auth |-> auth, arg |-> 0, status |-> 200,
                body |-> with_likes(order_by_timestamp_desc(posts), optional_user_id(auth)),
                after_create |-> JustCreated]

\* GET /api/users/{username}/posts
get_user_posts(username, auth) ==
    LET found == UserByUsername(username) IN
    /\ UNCHANGED <<store, inflight>>
    /\ IF found = {}
       THEN Respond("get_user_posts", auth, username, 404, <<>>)
       ELSE LET user == CHOOSE u \in found : TRUE
                rows == {p \in posts : p.owner_id = user.id} IN
            Respond("get_user_posts", auth, username, 200,
                    with_likes(order_by_timestamp_desc(rows), optional_user_id(auth)))

Next ==
    \/ \E auth \in Headers, text \in Texts : create_post(auth, text)
    \/ \E auth \in Headers, post_id \in PostIds : delete_post(auth, post_id)
    \/ \E auth \in Headers, post_id \in PostIds : like_post(auth, post_id)
    \/ \E auth \in Headers, post_id \in PostIds : unlike_post(auth, post_id)
    \/ \E username \in Usernames, password \in Passwords : login(username, password)
    \/ \E auth \in Headers : list_posts(auth)
    \/ \E username \in Usernames, auth \in Headers : get_user_posts(username, auth)

Spec == Init /\ [][Next]_vars

\* ------------------------------------------------- several server processes
Request(op, auth, user_id, post_id) ==
    [op |-> op, auth |-> auth, user_id |-> user_id, post_id |-> post_id]

Park(request) ==
    /\ BagCardinality(inflight) < MaxInflight
    /\ inflight' = inflight (+) SetToBag({request})
    /\ UNCHANGED <<store, last>>

\* like_post from the request's arrival to the end of its two SELECTs
like_post_read(auth, post_id) ==
    LET cu == get_current_user(auth) IN
    IF cu.status # 200
    THEN Respond("like_post", auth, post_id, cu.status, <<>>) /\ UNCHANGED <<store, inflight>>
    ELSE IF like_check(cu.user, post_id) # 0
    THEN /\ Respond("like_post", auth, post_id, like_check(cu.user, post_id), <<>>)
         /\ UNCHANGED <<store, inflight>>
    ELSE Park(Request("like_post", auth, cu.user.id, post_id))

\* like_post's db.add(new_like); db.commit() in the process that holds request
like_post_commit(request) ==
    /\ BagIn(request, inflight) /\ request.op = "like_post"
    /\ inflight' = inflight (-) SetToBag({request})
    /\ like_commit(request.auth, request.user_id, request.post_id)

\* delete_post from the request's arrival to the end of its SELECT
delete_post_read(auth, post_id) ==
    LET cu == get_current_user(auth) IN
    IF cu.status # 200
    THEN Respond("delete_post", auth, post_id, cu.status, <<>>) /\ UNCHANGED <<store, inflight>>
    ELSE IF delete_check(cu.user, post_id) # 0
    THEN /\ Respond("delete_post", auth, post_id, delete_check(cu.user, post_id), <<>>)
         /\ UNCHANGED <<store, inflight>>
    ELSE Park(Request("delete_post", auth, cu.user.id, post_id))

\* delete_post's db.delete(post); db.commit() in the process that holds request
delete_post_commit(request) ==
    /\ BagIn(request, inflight) /\ request.op = "delete_post"
    /\ inflight' = inflight (-) SetToBag({request})
    /\ delete_commit(request.auth, request.post_id)

NextConc ==
    \/ \E auth \in BearerHeaders, text \in Texts :
          Cardinality(usedIds) < MaxConcPosts /\ create_post(auth, text)
    \/ \E auth \in BearerHeaders, post_id \in ConcPostIds : like_post_read(auth, post_id)
    \/ \E request \in BagToSet(inflight) : like_post_commit(request)
    \/ \E auth \in BearerHeaders, post_id \in ConcPostIds : delete_post_read(auth, post_id)
    \/ \E request \in BagToSet(inflight) : delete_post_commit(request)
    \/ \E auth \in BearerHeaders, post_id \in ConcPostIds : unlike_post(auth, post_id)
    \/ \E username \in Usernames, password \in Passwords : login(username, password)

SpecConc == Init /\ [][NextConc]_vars

\* ------------------------------------------------------------ vocabulary
UserIds == {u.id : u \in FAKE_USERS_DB}
StoredUsernames == {u.username : u \in FAKE_USERS_DB}
Protected == {"create_post", "delete_post", "like_post", "unlike_post"}
Listing == {"list_posts", "get_user_posts"}

\* the header a client sends for a token: "Bearer " + token, token without spaces
BearerOf(token) == <<"Bearer", token>>

\* the user the header of the latest (primed: of this step's) request resolves to
Caller(request) == get_current_user(request.auth)

\* the number of likes rows (user, post_id) over all users, counted row by row
RECURSIVE RowsOfPost(_, _, _)
RowsOfPost(bag, post_id, ids) ==
    IF ids = {} THEN 0
    ELSE LET id == CHOOSE x \in ids : TRUE IN
         CopiesIn(LikeRow(id, post_id), bag) + RowsOfPost(bag, post_id, ids \ {id})

\* ------------------------------------------------------------------- C1
UniqueLikes == \A row \in BagToSet(likes) : CopiesIn(row, likes) = 1

\* a like_post request answered from its reads, by a caller who already likes the post
DuplicateLikeRefused ==
    (/\ last'.op = "like_post"
     /\ inflight' = inflight
     /\ Caller(last').status = 200
     /\ PostById(last'.arg) # {}
     /\ HasLike(Caller(last').user.id, last'.arg))
    => (last'.status = 400 /\ likes' = likes /\ posts' = posts)

\* C1: under every interleaving of login, create_post, delete_post, like_post and
\* unlike_post, the likes table holds at most one row per (user_id, post_id), so a
\* user adds at most 1 to a post's likes_count, and a like_post by a caller who
\* already has a Like on the post returns 400 and adds no row.
C1_OneLikePerUserAndPost ==
    [][UniqueLikes /\ UniqueLikes' /\ DuplicateLikeRefused]_vars

C1_Witness ==
    /\ last.op = "like_post" /\ last.status = 400
    /\ HasLike(Caller(last).user.id, last.arg)
    /\ likes_count(last.arg) = Cardinality(UserIds)

\* ------------------------------------------------------------------- C2
\* C2: a like_post whose insert hits the (user_id, post_id) uniqueness constraint
\* ends as "already liked" (400), never as an unhandled storage error (500).
C2_ConflictIsAlreadyLiked ==
    last.op = "like_post" => last.status # 500

\* ------------------------------------------------------------------- C3
DeleteContract ==
    (last'.op = "delete_post" /\ Caller(last').status = 200) =>
        LET found == PostById(last'.arg) IN
        /\ found = {} => (last'.status = 404 /\ posts' = posts /\ likes' = likes)
        /\ (found # {} /\ (CHOOSE p \in found : TRUE).owner_id # Caller(last').user.id) =>
              /\ last'.status = 403
              /\ posts' = posts /\ likes' = likes
              /\ \E i \in 1..Cardinality(posts') :
                    order_by_timestamp_desc(posts')[i].id = last'.arg

OnlyOwnerRemoves ==
    \A p \in posts \ posts' :
        /\ last'.op = "delete_post" /\ last'.status = 204 /\ last'.arg = p.id
        /\ Caller(last').status = 200
        /\ Caller(last').user.id = p.owner_id

\* C3: a post leaves storage only through a delete_post whose caller is its owner;
\* for any other caller delete_post returns 403 and changes neither posts nor
\* likes, so the post is still listed; on an unknown id it returns 404 and
\* changes nothing.
C3_OnlyOwnerDeletes == [][DeleteContract /\ OnlyOwnerRemoves]_vars

C3_Witness ==
    /\ last.op = "delete_post" /\ last.status = 403
    /\ PostById(last.arg) # {}
    /\ Caller(last).user.id \in UserIds

\* ------------------------------------------------------------------- C4
\* C4: delete_post by the owner of an existing post deletes it and returns 204
\* whatever likes rows reference the post, and leaves those rows in place.
C4_OwnerDeleteAlwaysSucceeds ==
    [][(/\ last'.op = "delete_post"
        /\ Caller(last').status = 200
        /\ \E p \in PostById(last'.arg) : p.owner_id = Caller(last').user.id)
       => (last'.status = 204 /\ posts' = posts \ PostById(last'.arg) /\ likes' = likes)]_vars

\* ------------------------------------------------------------------- C5
ListedCountsMatch ==
    \A i \in 1..Len(last.body) :
        LET item == last.body[i]
            me == Caller(last) IN
        /\ item.likes_count = RowsOfPost(likes, item.id, UserIds)
        /\ item.liked_by_me =
              (me.status = 200 /\ CopiesIn(LikeRow(me.user.id, item.id), likes) > 0)
        /\ last.auth = NoHeader => item.liked_by_me = FALSE

\* C5: every post returned by list_posts or get_user_posts carries likes_count
\* equal to the number of likes rows with its post_id, and liked_by_me true
\* exactly when the resolved caller has a likes row for it; without an
\* Authorization header liked_by_me is false on every post.
C5_ListedLikesMatchStorage ==
    (last.op \in Listing /\ last.status = 200) => ListedCountsMatch

C5_Witness ==
    /\ last.op = "list_posts" /\ Len(last.body) = 2
    /\ \E i, j \in 1..2 :
          /\ last.body[i].likes_count = 2 /\ last.body[i].liked_by_me
          /\ last.body[j].likes_count = 1 /\ ~last.body[j].liked_by_me

\* ------------------------------------------------------------------- C6
\* the text after "Bearer " is the username of a stored user
RemainderIsUsername(auth) == Len(auth) = 2 /\ auth[2] \in StoredUsernames

\* C6: on every endpoint that resolves a caller, listing endpoints included, a
\* header that starts with "Bearer " and whose remainder is no stored username
\* makes the request fail with 401.
C6_UnknownBearerIs401Everywhere ==
    (/\ last.op \in Protected \cup Listing
     /\ StartsWithBearer(last.auth)
     /\ ~RemainderIsUsername(last.auth))
    => last.status = 401

\* C6 as amended: on create_post, delete_post, like_post and unlike_post a header
\* that starts with "Bearer " and whose first field after the prefix is no stored
\* username fails with 401; list_posts and get_user_posts never answer 401, and
\* treat such a header like an absent or prefix-less one: as anonymous, with
\* liked_by_me false on every post.
C6_UnknownBearer401OnProtectedOnly ==
    /\ (/\ last.op \in Protected
        /\ StartsWithBearer(last.auth)
        /\ TokenOf(last.auth) \notin StoredUsernames)
       => last.status = 401
    /\ last.op \in Listing =>
          /\ last.status # 401
          /\ (/\ last.status = 200
              /\ \/ ~StartsWithBearer(last.auth)
                 \/ TokenOf(last.auth) \notin StoredUsernames)
             => \A i \in 1..Len(last.body) : last.body[i].liked_by_me = FALSE

C6_Witness ==
    /\ last.op = "list_posts" /\ last.auth = <<"Bearer", "ghost">>
    /\ last.status = 200
    /\ \E i \in 1..Len(last.body) : last.body[i].likes_count > 0

\* ------------------------------------------------------------------- C7
LoginContract ==
    last.op = "login" =>
        LET matching == {u \in FAKE_USERS_DB : /\ u.username = last.arg.username
                                               /\ u.password = last.arg.password} IN
        /\ last.status = 200 <=> matching # {}
        /\ last.status # 200 => last.status = 401
        /\ last.status = 200 =>
              LET resolved == get_current_user(BearerOf(last.body.access_token)) IN
              /\ resolved.status = 200
              /\ \E u \in matching : resolved.user = [id |-> u.id, username |-> u.username]
              /\ last.body.user = resolved.user

CreateWithToken ==
    (/\ last.op = "login" /\ last.status = 200
     /\ last'.op = "create_post"
     /\ last'.auth = BearerOf(last.body.access_token))
    => (/\ last'.status = 201
        /\ last'.body.owner_id = last.body.user.id
        /\ last'.body \in posts')

\* C7: login succeeds exactly when a user with that username exists and the
\* password equals the stored one (401 otherwise); the returned access_token,
\* sent as "Authorization: Bearer <access_token>", resolves to the user who
\* logged in, and a post created with it is owned by that user.
C7_TokenResolvesToLoggedInUser == [][LoginContract' /\ CreateWithToken]_vars

C7_Witness ==
    /\ last.op = "login" /\ last.status = 200
    /\ last.arg.username = "user2"
    /\ get_current_user(BearerOf(last.body.access_token)).user = [id |-> "2", username |-> "user2"]

\* ------------------------------------------------------------------- C8
UnlikeContract ==
    (last'.op = "unlike_post" /\ Caller(last').status = 200) =>
        LET me == Caller(last').user.id
            mine == LikeRow(me, last'.arg) IN
        IF CopiesIn(mine, likes) = 0
        THEN last'.status = 404 /\ posts' = posts /\ likes' = likes
        ELSE /\ last'.status = 204
             /\ posts' = posts
             /\ CopiesIn(mine, likes') = CopiesIn(mine, likes) - 1
             /\ \A id \in UserIds, post_id \in PostIds :
                   LikeRow(id, post_id) # mine =>
                      CopiesIn(LikeRow(id, post_id), likes')
                         = CopiesIn(LikeRow(id, post_id), likes)
             /\ RowsOfPost(likes', last'.arg, UserIds)
                   = RowsOfPost(likes, last'.arg, UserIds) - 1

\* C8: unlike_post by a caller without a likes row for the post returns 404 and
\* changes neither posts nor likes; with such a row it returns 204 and removes
\* exactly that row, so the post's likes_count drops by exactly 1 and every
\* other row stays.
C8_UnlikeRemovesExactlyOwnRow == [][UnlikeContract]_vars

C8_Witness ==
    /\ last.op = "unlike_post" /\ last.status = 204
    /\ likes_count(last.arg) = 1
    /\ BagCardinality(likes) >= 2

\* ------------------------------------------------------------------- C9
\* body lists exactly the rows of S, newest first
ListsNewestFirst(body, S) ==
    /\ Len(body) = Cardinality(S)
    /\ \A p \in S : \E i \in 1..Len(body) :
          /\ body[i].id = p.id /\ body[i].text = p.text
          /\ body[i].timestamp = p.timestamp
          /\ body[i].owner_id = p.owner_id /\ body[i].owner_username = p.owner_username
    /\ \A i, j \in 1..Len(body) : i < j => body[i].timestamp > body[j].timestamp

\* C9: list_posts returns all stored posts newest first, get_user_posts exactly
\* the named user's posts in the same order, and a list_posts that directly
\* follows a create_post shows the new post first with likes_count = 0.
C9_NewestFirst ==
    /\ last.op = "list_posts" =>
          /\ ListsNewestFirst(last.body, posts)
          /\ last.after_create # 0 =>
                last.body[1].id = last.after_create /\ last.body[1].likes_count = 0
    /\ (last.op = "get_user_posts" /\ last.status = 200) =>
          ListsNewestFirst(last.body,
              {p \in posts : \E u \in FAKE_USERS_DB :
                                u.username = last.arg /\ p.owner_id = u.id})

C9_Witness ==
    /\ last.op = "list_posts" /\ last.after_create # 0
    /\ Len(last.body) = 2
    /\ last.body[1].id = last.after_create
    /\ last.body[2].likes_count > 0

\* ------------------------------------------------------------------ C10
\* C10: under every interleaving of like_post and delete_post, a likes row is
\* inserted only for a post that is in storage when the insert commits.
C10_LikeOnlyForStoredPost ==
    [][\A id \in UserIds, post_id \in PostIds :
          CopiesIn(LikeRow(id, post_id), likes') > CopiesIn(LikeRow(id, post_id), likes)
             => PostById(post_id) # {}]_vars
====
